---- MODULE Spec2Model ----
(***************************************************************************)
(* Scripts/ollama-embed.py: a command line wrapper that posts one text to  *)
(* the Ollama embedding endpoint and prints the first returned embedding.  *)
(*                                                                         *)
(* JSON texts and Python values are both trees of nodes                    *)
(*     [tag, lit, items]                                                   *)
(* A JSON text node keeps its literal as written on the wire (lit is the   *)
(* sequence of source tokens: "0.10", "a", ...), a Python value node  *)
(* keeps the value Python holds (lit is the repr of a number or the        *)
(* characters of a str).  json.loads and json.dumps translate between the  *)
(* two, so a text and its round trip differ wherever Python normalises.    *)
(***************************************************************************)
EXTENDS Integers, Sequences, FiniteSets, TLC

\* Bounds of the exploration.
MaxLen == 2        \* longest command line argument, in characters
MaxExtra == 1      \* most arguments following the text argument
MaxEmb == 2        \* longest "embeddings" array the service returns

N(tag, lit, items) == [tag |-> tag, lit |-> lit, items |-> items]

RECURSIVE SeqsUpTo(_, _)
SeqsUpTo(S, n) ==
    IF n = 0 THEN {<<>>}
    ELSE LET shorter == SeqsUpTo(S, n - 1)
         IN  shorter \cup {Append(s, x) : s \in {t \in shorter : Len(t) = n - 1}, x \in S}

-----------------------------------------------------------------------------
(* Characters.  A character is written as itself, except "U+00E9" (e with  *)
(* acute, not ASCII) and "U+DC80" (the lone surrogate Python's             *)
(* surrogateescape gives an argument byte that is not UTF-8).              *)
Chars == {"a", "\"", "\\", "U+00E9", "U+DC80"}

\* A str written between quotes as it is.
py_no_escape(c) == c

\* json.dumps of a str, ensure_ascii=True (the default): per character.
py_encode_basestring_ascii(c) ==
    CASE c = "\""     -> "\\\""
      [] c = "\\"     -> "\\\\"
      [] c = "U+00E9" -> "\\u00e9"
      [] c = "U+DC80" -> "\\udc80"
      [] OTHER        -> c

\* json.loads of a string literal: per source token.
py_scanstring(tok) ==
    CASE tok = "\\\""    -> "\""
      [] tok = "\\\\"    -> "\\"
      [] tok = "\\u00e9" -> "U+00E9"
      [] tok = "\\u0061" -> "a"
      [] tok = "\\udc80" -> "U+DC80"
      [] OTHER           -> tok

\* json.loads of a number literal: an int literal stays an int, anything
\* with a fraction or an exponent becomes a float, printed by float.__repr__.
py_number(lit) ==
    CASE lit = "1"    -> N("int", <<"1">>, <<>>)
      [] lit = "0.1"  -> N("float", <<"0.1">>, <<>>)
      [] lit = "0.10" -> N("float", <<"0.1">>, <<>>)
      [] lit = "0.2"  -> N("float", <<"0.2">>, <<>>)
      [] lit = "2e-1" -> N("float", <<"0.2">>, <<>>)
      [] lit = "1e0"  -> N("float", <<"1.0">>, <<>>)

\* The escaped body of a str, and the characters of a string literal.
py_encode_str(chars) == [i \in 1..Len(chars) |-> py_encode_basestring_ascii(chars[i])]
py_scan_str(toks) == [i \in 1..Len(toks) |-> py_scanstring(toks[i])]

PyStr(chars) == N("str", chars, <<>>)
PyNone == N("None", <<>>, <<>>)
PyItem(key, val) == N("item", key, <<val>>)

\* dict construction from the members of a JSON object: a repeated key keeps
\* its first position and takes the last value.
RECURSIVE DictSet(_, _, _)
DictSet(pairs, key, val) ==
    IF pairs = <<>> THEN <<PyItem(key, val)>>
    ELSE IF Head(pairs).lit = key THEN <<PyItem(key, val)>> \o Tail(pairs)
    ELSE <<Head(pairs)>> \o DictSet(Tail(pairs), key, val)

\* JSONDecoder.decode on a well-formed JSON text.
RECURSIVE py_decode(_)
RECURSIVE LoadMembers(_, _)
LoadMembers(members, acc) ==
    IF members = <<>> THEN acc
    ELSE LoadMembers(Tail(members),
                     DictSet(acc, py_scan_str(Head(members).lit),
                             py_decode(Head(members).items[1])))
py_decode(t) ==
    CASE t.tag = "obj"   -> N("dict", <<>>, LoadMembers(t.items, <<>>))
      [] t.tag = "arr"   -> N("list", <<>>, [i \in 1..Len(t.items) |-> py_decode(t.items[i])])
      [] t.tag = "str"   -> PyStr(py_scan_str(t.lit))
      [] t.tag = "num"   -> py_number(t.lit[1])
      [] t.tag = "true"  -> N("bool", <<"True">>, <<>>)
      [] t.tag = "false" -> N("bool", <<"False">>, <<>>)
      [] t.tag = "null"  -> PyNone

\* json.dumps with the default options.
RECURSIVE json_dumps(_)
json_dumps(v) ==
    CASE v.tag = "dict"  -> N("obj", <<>>, [i \in 1..Len(v.items) |->
                                N("member", py_encode_str(v.items[i].lit),
                                  <<json_dumps(v.items[i].items[1])>>)])
      [] v.tag = "list"  -> N("arr", <<>>, [i \in 1..Len(v.items) |-> json_dumps(v.items[i])])
      [] v.tag = "str"   -> N("str", py_encode_str(v.lit), <<>>)
      [] v.tag = "int"   -> N("num", v.lit, <<>>)
      [] v.tag = "float" -> N("num", v.lit, <<>>)
      [] v.tag = "bool"  -> IF v.lit = <<"True">> THEN N("true", <<>>, <<>>)
                            ELSE N("false", <<>>, <<>>)
      [] v.tag = "None"  -> N("null", <<>>, <<>>)

-----------------------------------------------------------------------------
(* Exceptions and results of operations that may raise.                    *)
Exc(cls, msg) == [cls |-> cls, msg |-> msg]
NoExc == Exc("", "")
Ok(v) == [ok |-> TRUE, val |-> v, exc |-> NoExc]
Raise(cls, msg) == [ok |-> FALSE, val |-> PyNone, exc |-> Exc(cls, msg)]

\* The classes `except Exception` catches, among those a run can raise.
\* KeyboardInterrupt and SystemExit derive from BaseException only.
ExceptionSubclasses ==
    {"URLError", "HTTPError", "TimeoutError", "IncompleteRead",
     "UnicodeDecodeError", "JSONDecodeError",
     "KeyError", "IndexError", "TypeError"}

\* json.loads(s): a text that is not JSON raises JSONDecodeError.
json_loads(t) ==
    IF t.tag = "bad"
    THEN Raise("JSONDecodeError",
               IF t.lit = <<>> THEN "Expecting value: line 1 column 1 (char 0)"
               ELSE "Expecting ',' delimiter: line 1 column 21 (char 20)")
    ELSE Ok(py_decode(t))

PyInt(lit) == N("int", <<lit>>, <<>>)

\* Position (1-based) a Python index selects in a sequence of length n;
\* 0 when it is out of range.
PyIndex(k, n) ==
    CASE k = "0"  -> IF n >= 1 THEN 1 ELSE 0
      [] k = "-1" -> n

RECURSIVE DictFind(_, _)
DictFind(pairs, key) ==
    IF pairs = <<>> THEN <<>>
    ELSE IF Head(pairs).lit = key THEN Head(pairs).items
    ELSE DictFind(Tail(pairs), key)

\* v[k] for a str key or an int index k.
Subscript(v, k) ==
    CASE v.tag = "dict" ->
           IF k.tag = "str" /\ DictFind(v.items, k.lit) # <<>>
           THEN Ok(DictFind(v.items, k.lit)[1])
           ELSE Raise("KeyError", IF k.tag = "str" THEN "'" \o k.lit[1] \o "'" ELSE k.lit[1])
      [] v.tag = "list" ->
           IF k.tag # "int"
           THEN Raise("TypeError", "list indices must be integers or slices, not str")
           ELSE IF PyIndex(k.lit[1], Len(v.items)) = 0
                THEN Raise("IndexError", "list index out of range")
                ELSE Ok(v.items[PyIndex(k.lit[1], Len(v.items))])
      [] v.tag = "str" ->
           IF k.tag # "int"
           THEN Raise("TypeError", "string indices must be integers, not 'str'")
           ELSE IF PyIndex(k.lit[1], Len(v.lit)) = 0
                THEN Raise("IndexError", "string index out of range")
                ELSE Ok(PyStr(<<v.lit[PyIndex(k.lit[1], Len(v.lit))]>>))
      [] OTHER -> Raise("TypeError", "'" \o (IF v.tag = "None" THEN "NoneType" ELSE v.tag)
                                         \o "' object is not subscriptable")

\* result["embeddings"][-1]
LastEmbedding(result) ==
    LET embeddings == Subscript(result, PyStr(<<"embeddings">>))
    IN  IF embeddings.ok THEN Subscript(embeddings.val, PyInt("-1")) ELSE embeddings

\* result["embeddings"][0]
FirstEmbedding(result) ==
    LET embeddings == Subscript(result, PyStr(<<"embeddings">>))
    IN  IF embeddings.ok THEN Subscript(embeddings.val, PyInt("0")) ELSE embeddings

-----------------------------------------------------------------------------
(* What the service can answer.                                            *)
TNum(l) == N("num", <<l>>, <<>>)
TArr(items) == N("arr", <<>>, items)
TStr(toks) == N("str", toks, <<>>)
TObj(members) == N("obj", <<>>, members)
TMember(key, val) == N("member", <<key>>, <<val>>)
TNull == N("null", <<>>, <<>>)

Elems ==
    {TArr(<<TNum("0.1"), TNum("0.2")>>), TArr(<<TNum("0.10"), TNum("1e0")>>),
     TArr(<<>>), TNum("1"), TStr(<<"\\u0061", "b">>)}

EmbeddingsArrays == {TArr(es) : es \in SeqsUpTo(Elems, MaxEmb)}

NotArrays ==
    {TStr(<<"a", "b">>), TStr(<<>>), TObj(<<>>),
     TObj(<<TMember("0", TArr(<<TNum("0.1")>>))>>),
     TNum("1"), TNull, N("true", <<>>, <<>>)}

Docs ==
    {TObj(<<TMember("embeddings", e)>>) : e \in EmbeddingsArrays \cup NotArrays}
    \cup {TObj(<<TMember("model", TStr(<<"mxbai-embed-large">>)),
                 TMember("embeddings", TArr(<<TArr(<<TNum("0.1")>>), TArr(<<TNum("0.2")>>)>>))>>),
          TObj(<<TMember("embeddings", TArr(<<>>)),
                 TMember("embeddings", TArr(<<TArr(<<TNum("0.1")>>)>>))>>),
          TObj(<<TMember("embeddings", TArr(<<TArr(<<TNum("0.1")>>)>>)),
                 TMember("embeddings", TArr(<<>>))>>),
          TObj(<<TMember("embeddings", TArr(<<TArr(<<TNum("2e-1")>>)>>))>>),
          TObj(<<TMember("embeddings", TArr(<<TObj(<<>>)>>))>>),
          TObj(<<TMember("embeddings", TArr(<<TNull, TArr(<<TNum("0.1")>>)>>))>>),
          TObj(<<>>),
          TObj(<<TMember("error", TStr(<<"model not found">>))>>),
          TArr(<<TArr(<<TNum("0.1")>>)>>), TArr(<<>>), TStr(<<"embeddings">>),
          TNum("1"), TNull,
          N("bad", <<"{\"embeddings\": [[0.1">>, <<>>), N("bad", <<>>, <<>>)}

\* A response body: bytes that are UTF-8 or not, and the text they decode to.
Bodies == {[utf8 |-> TRUE, doc |-> d] : d \in Docs}
          \cup {[utf8 |-> FALSE, doc |-> N("bad", <<>>, <<>>)]}

ErrorStatuses == {404, 500}

\* The outcomes of urlopen(req, timeout=60) that raise before a response
\* object exists, with str(e) and the state the library leaves the socket in.
\* An HTTPError carries the unread, still open response of the error status.
UrlopenFailures ==
    {[exc |-> Exc("URLError", "<urlopen error [Errno 111] Connection refused>"), conn |-> "none"],
     [exc |-> Exc("URLError", "<urlopen error timed out>"), conn |-> "none"],
     [exc |-> Exc("TimeoutError", "timed out"), conn |-> "closed"]}

HTTPError(status) ==
    Exc("HTTPError", IF status = 404 THEN "HTTP Error 404: Not Found"
                     ELSE "HTTP Error 500: Internal Server Error")

\* The outcomes of response.read() that raise.
ReadFailures ==
    {Exc("TimeoutError", "timed out"),
     Exc("IncompleteRead", "IncompleteRead(0 bytes read)")}

-----------------------------------------------------------------------------
(* The program.                                                            *)
VARIABLES
    pc,         \* the statement the run is at
    argv,       \* sys.argv: the script name, then the arguments (sequences of characters)
    text,       \* line 28
    req,        \* the urllib.request.Request of lines 12-17
    requests,   \* the requests urlopen was called with, in order
    conn,       \* the connection of the call: "none", "open" or "closed"
    response,   \* the body carried by the response object
    content,    \* response.read().decode('utf-8')
    result,     \* line 20
    embedding,  \* the value embed returns
    exc,        \* the exception in flight, NoExc when none
    stdout, stderr, exitcode

vars == <<pc, argv, text, req, requests, conn, response, content, result,
          embedding, exc, stdout, stderr, exitcode>>

Unset == N("unset", <<>>, <<>>)
NoRequest == [url |-> "", data |-> Unset, headers |-> {}, method |-> ""]
NoBody == [utf8 |-> TRUE, doc |-> Unset]
Running == -1

Args == SeqsUpTo(Chars, MaxLen)
ExtraArgs == SeqsUpTo({<<"\"", "a">>}, MaxExtra)
ScriptName == <<"ollama-embed.py">>

model == "mxbai-embed-large"
base_url == "http://localhost:11434"
timeout == 60
UsageMsg == <<"Usage: ollama-embed.py <text>">>

Init ==
    /\ pc = "main"
    /\ argv \in {<<ScriptName>>} \cup {<<ScriptName, a>> \o extra : a \in Args, extra \in ExtraArgs}
    /\ text = <<>>
    /\ req = NoRequest
    /\ requests = <<>>
    /\ conn = "none"
    /\ response = NoBody
    /\ content = Unset
    /\ result = Unset
    /\ embedding = Unset
    /\ exc = NoExc
    /\ stdout = <<>>
    /\ stderr = <<>>
    /\ exitcode = Running

\* The usage message printed to standard output.
MainUsageOnStdout ==
    /\ pc = "main"
    /\ IF Len(argv) < 2
       THEN /\ stdout' = Append(stdout, UsageMsg)
            /\ exitcode' = 1
            /\ pc' = "exited"
            /\ text' = text
       ELSE /\ text' = argv[2]
            /\ pc' = "embed"
            /\ UNCHANGED <<stdout, exitcode>>
    /\ UNCHANGED <<argv, req, requests, conn, response, content, result,
                   embedding, exc, stderr>>

\* text = sys.argv[-1]
MainLastArgument ==
    /\ pc = "main"
    /\ IF Len(argv) < 2
       THEN /\ stderr' = Append(stderr, UsageMsg)
            /\ exitcode' = 1
            /\ pc' = "exited"
            /\ text' = text
       ELSE /\ text' = argv[Len(argv)]
            /\ pc' = "embed"
            /\ UNCHANGED <<stderr, exitcode>>
    /\ UNCHANGED <<argv, req, requests, conn, response, content, result,
                   embedding, exc, stdout>>

\* Lines 24-28: the argument check, then text = sys.argv[1].
Main ==
    /\ pc = "main"
    /\ IF Len(argv) < 2
       THEN /\ stderr' = Append(stderr, UsageMsg)
            /\ exitcode' = 1
            /\ pc' = "exited"
            /\ text' = text
       ELSE /\ text' = argv[2]
            /\ pc' = "embed"
            /\ UNCHANGED <<stderr, exitcode>>
    /\ UNCHANGED <<argv, req, requests, conn, response, content, result,
                   embedding, exc, stdout>>

\* str.encode('utf-8'): a lone surrogate cannot be encoded.
RECURSIVE HasSurrogate(_)
HasSurrogate(t) ==
    \/ \E i \in 1..Len(t.lit) : t.lit[i] = "U+DC80"
    \/ \E i \in 1..Len(t.items) : HasSurrogate(t.items[i])

str_encode(t) ==
    IF HasSurrogate(t)
    THEN Raise("UnicodeEncodeError", "'utf-8' codec can't encode character: surrogates not allowed")
    ELSE Ok(t)

\* Line 10: json.dumps({"model": model, "input": text})
Payload(t) ==
    json_dumps(N("dict", <<>>, <<PyItem(<<"model">>, PyStr(<<model>>)),
                                 PyItem(<<"input">>, PyStr(t))>>))

\* Lines 9-17: the url, the body and the Request object.
BuildRequest ==
    /\ pc = "embed"
    /\ LET data == str_encode(Payload(text))
       IN  IF data.ok
           THEN /\ req' = [url |-> base_url \o "/api/embed", data |-> data.val,
                           headers |-> {<<"Content-Type", "application/json">>},
                           method |-> "POST"]
                /\ pc' = "urlopen"
                /\ exc' = exc
           ELSE /\ exc' = data.exc
                /\ pc' = "except"
                /\ req' = req
    /\ UNCHANGED <<argv, text, requests, conn, response, content, result,
                   embedding, stdout, stderr, exitcode>>

\* Line 19, the call urlopen(req, timeout=60): one request, and the service
\* refuses, times out, answers with an error status or answers with a body.
Urlopen ==
    /\ pc = "urlopen"
    /\ requests' = Append(requests, [request |-> req, timeout |-> timeout])
    /\ \/ \E f \in UrlopenFailures :
             /\ exc' = f.exc
             /\ conn' = f.conn
             /\ pc' = "except"
             /\ response' = response
       \/ \E status \in ErrorStatuses :
             /\ exc' = HTTPError(status)
             /\ conn' = "open"
             /\ pc' = "except"
             /\ response' = response
       \/ \E body \in Bodies :
             /\ response' = body
             /\ conn' = "open"
             /\ pc' = "read"
             /\ exc' = exc
    /\ UNCHANGED <<argv, text, req, content, result, embedding, stdout, stderr, exitcode>>

\* Line 20, response.read().decode('utf-8'), inside the with block.
Read ==
    /\ pc = "read"
    /\ \/ \E e \in ReadFailures :
             /\ exc' = e
             /\ pc' = "with_exit"
             /\ content' = content
       \/ IF response.utf8
          THEN /\ content' = response.doc
               /\ pc' = "loads"
               /\ exc' = exc
          ELSE /\ exc' = Exc("UnicodeDecodeError", "'utf-8' codec can't decode byte 0xff in position 0: invalid start byte")
               /\ pc' = "with_exit"
               /\ content' = content
    /\ UNCHANGED <<argv, text, req, requests, conn, response, result, embedding,
                   stdout, stderr, exitcode>>

\* Line 20, result = json.loads(...).
Loads ==
    /\ pc = "loads"
    /\ LET r == json_loads(content)
       IN  IF r.ok
           THEN /\ result' = r.val
                /\ pc' = "index"
                /\ exc' = exc
           ELSE /\ exc' = r.exc
                /\ pc' = "with_exit"
                /\ result' = result
    /\ UNCHANGED <<argv, text, req, requests, conn, response, content, embedding,
                   stdout, stderr, exitcode>>

\* Line 21, return result["embeddings"][0].
Index ==
    /\ pc = "index"
    /\ LET r == FirstEmbedding(result)
       IN  IF r.ok
           THEN /\ embedding' = r.val
                /\ exc' = exc
           ELSE /\ exc' = r.exc
                /\ embedding' = embedding
    /\ pc' = "with_exit"
    /\ UNCHANGED <<argv, text, req, requests, conn, response, content, result,
                   stdout, stderr, exitcode>>

\* response.close() as the last statement of the block, without try/finally.
ClosesOnReturn(e) == e = NoExc

\* Whether leaving the with block on this exit path closes the response.
ClosesOnExit(e) == TRUE

\* Line 19, the end of the with block: response.__exit__ closes the response
\* whether the block returned or raised, and the return or the exception
\* goes on to the caller.
WithExit ==
    /\ pc = "with_exit"
    /\ conn' = IF ClosesOnExit(exc) THEN "closed" ELSE conn
    /\ pc' = IF exc = NoExc THEN "print" ELSE "except"
    /\ UNCHANGED <<argv, text, req, requests, response, content, result, embedding,
                   exc, stdout, stderr, exitcode>>

\* Line 31, print(json.dumps(embedding)); the script ends, exit status 0.
PrintEmbedding ==
    /\ pc = "print"
    /\ stdout' = Append(stdout, json_dumps(embedding))
    /\ exitcode' = 0
    /\ pc' = "exited"
    /\ UNCHANGED <<argv, text, req, requests, conn, response, content, result,
                   embedding, exc, stderr>>

\* `except urllib.error.URLError as e`
CatchesURLError(cls) == cls \in {"URLError", "HTTPError"}

\* `except (OSError, ValueError) as e`
CatchesNoLookupError(cls) ==
    cls \in ExceptionSubclasses \ {"KeyError", "IndexError", "TypeError"}

\* Line 32, `except Exception as e`.
Catches(cls) == cls \in ExceptionSubclasses

\* A handler that calls embed once more before giving up.
ExceptRetry ==
    /\ pc = "except"
    /\ IF Len(requests) = 1
       THEN /\ pc' = "urlopen"
            /\ exc' = NoExc
            /\ UNCHANGED <<stderr, exitcode>>
       ELSE /\ stderr' = Append(stderr, <<"Error: ", exc.msg>>)
            /\ exitcode' = 1
            /\ pc' = "exited"
            /\ exc' = exc
    /\ UNCHANGED <<argv, text, req, requests, conn, response, content, result,
                   embedding, stdout>>

\* The error message printed without file=sys.stderr.
ExceptOnStdout ==
    /\ pc = "except"
    /\ stdout' = Append(stdout, <<"Error: ", exc.msg>>)
    /\ exitcode' = 1
    /\ pc' = "exited"
    /\ UNCHANGED <<argv, text, req, requests, conn, response, content, result,
                   embedding, exc, stderr>>

\* Lines 32-34: a caught exception is printed and the exit status is 1; one
\* the clause does not catch ends the run with the interpreter's traceback.
Except ==
    /\ pc = "except"
    /\ IF Catches(exc.cls)
       THEN stderr' = Append(stderr, <<"Error: ", exc.msg>>)
       ELSE stderr' = Append(stderr, <<"Traceback (most recent call last):", exc.cls, exc.msg>>)
    /\ exitcode' = 1
    /\ pc' = "exited"
    /\ UNCHANGED <<argv, text, req, requests, conn, response, content, result,
                   embedding, exc, stdout>>

Next ==
    \/ Main
    \/ BuildRequest
    \/ Urlopen
    \/ Read
    \/ Loads
    \/ Index
    \/ WithExit
    \/ PrintEmbedding
    \/ Except

Spec == Init /\ [][Next]_vars

\* The run is one sequential thread: a step that can be taken is taken.
FairSpec == Spec /\ WF_vars(Next)

-----------------------------------------------------------------------------
(* What a JSON text denotes (RFC 8259), for stating the properties: the    *)
(* characters of a string literal, the number a literal writes (in         *)
(* tenths), and the tree of these.  A quotation mark or a reverse solidus  *)
(* that is not escaped, or a lone surrogate written raw, is not JSON.      *)
JsonChar(tok) ==
    CASE tok = "\\\""    -> "\""
      [] tok = "\\\\"    -> "\\"
      [] tok = "\\u00e9" -> "U+00E9"
      [] tok = "\\u0061" -> "a"
      [] tok = "\\udc80" -> "U+DC80"
      [] tok \in {"\"", "\\", "U+DC80"} -> "INVALID"
      [] OTHER           -> tok

JsonString(toks) == [i \in 1..Len(toks) |-> JsonChar(toks[i])]

JsonNumber(lit) ==
    CASE lit \in {"1", "1.0", "1e0"}   -> "10/10"
      [] lit \in {"0.1", "0.10"}       -> "1/10"
      [] lit \in {"0.2", "2e-1"}       -> "2/10"

RECURSIVE JsonValue(_)
JsonValue(t) ==
    CASE t.tag = "num"    -> N("number", <<JsonNumber(t.lit[1])>>, <<>>)
      [] t.tag = "str"    -> N("string", JsonString(t.lit), <<>>)
      [] t.tag = "member" -> N("member", JsonString(t.lit), <<JsonValue(t.items[1])>>)
      [] OTHER            -> N(t.tag, <<>>, [i \in 1..Len(t.items) |-> JsonValue(t.items[i])])

IsJson(t) == t.tag \notin {"bad", "unset"}

\* The positions of the members of an object text named key, and the value
\* the object has for key (that of the last such member).
MembersNamed(t, key) == {i \in 1..Len(t.items) : JsonString(t.items[i].lit) = <<key>>}
HasMember(t, key) == t.tag = "obj" /\ MembersNamed(t, key) # {}
MemberValue(t, key) ==
    t.items[CHOOSE i \in MembersNamed(t, key) : \A j \in MembersNamed(t, key) : j <= i].items[1]

\* The body was received and is a JSON object with an "embeddings" array.
HasEmbeddingsArray ==
    /\ IsJson(content)
    /\ HasMember(content, "embeddings")
    /\ MemberValue(content, "embeddings").tag = "arr"
Embeddings == MemberValue(content, "embeddings").items

IsVector(t) == t.tag = "arr" /\ \A i \in 1..Len(t.items) : t.items[i].tag = "num"

Exited == pc = "exited"
ErrorLine(line) == Len(line) >= 1 /\ line[1] = "Error: "
ReportedAsError ==
    /\ Len(stderr) = 1
    /\ ErrorLine(stderr[1])
    /\ exitcode = 1
    /\ stdout = <<>>

-----------------------------------------------------------------------------
\* C1: a run whose response body is a JSON object with a non-empty
\* "embeddings" array prints one line, the first element of that array and
\* no later one, to standard output, nothing to standard error, and exits 0.
C1_PrintsFirstEmbedding ==
    (Exited /\ HasEmbeddingsArray /\ Len(Embeddings) >= 1)
        => /\ Len(stdout) = 1
           /\ JsonValue(stdout[1]) = JsonValue(Embeddings[1])
           /\ stderr = <<>>
           /\ exitcode = 0

C1_Witness ==
    /\ Exited /\ HasEmbeddingsArray /\ Len(Embeddings) >= 2
    /\ JsonValue(Embeddings[1]) # JsonValue(Embeddings[2])
    /\ Embeddings[1] # json_dumps(py_decode(Embeddings[1]))
    /\ Len(stdout) = 1

\* C2: a network error, a timeout, an error status, a body that is not
\* JSON and a JSON object without "embeddings" each end the run with one
\* line starting "Error: " on standard error, exit status 1 and nothing on
\* standard output.
C2_Failure ==
    \/ exc.cls \in {"URLError", "TimeoutError", "HTTPError", "IncompleteRead",
                    "UnicodeDecodeError", "JSONDecodeError"}
    \/ content.tag = "obj" /\ ~HasMember(content, "embeddings")

C2_FailuresReported == (Exited /\ C2_Failure) => ReportedAsError

C2_Witness ==
    /\ Exited
    /\ content.tag = "obj" /\ ~HasMember(content, "embeddings")
    /\ stderr = <<<<"Error: ", "'embeddings'">>>>

\* C3: a run without a text argument prints the usage message to standard
\* error, nothing to standard output, and exits 1.
C3_UsageOnNoArgument ==
    (Exited /\ Len(argv) < 2)
        => /\ stderr = <<<<"Usage: ollama-embed.py <text>">>>>
           /\ stdout = <<>>
           /\ exitcode = 1

C3_Witness == Exited /\ Len(argv) = 1 /\ stderr # <<>>

\* C4: every request is a POST to http://localhost:11434/api/embed with the
\* header Content-Type: application/json, and its body is a JSON object of
\* exactly two members, model = "mxbai-embed-large" and input = the text
\* argument, character for character; a run with a text argument sends it.
RequestMembers(data) ==
    {<<JsonValue(data.items[i]).lit, JsonValue(data.items[i]).items[1]>> : i \in 1..Len(data.items)}

C4_RequestShape ==
    /\ \A i \in 1..Len(requests) :
         LET r == requests[i].request
         IN  /\ r.method = "POST"
             /\ r.url = "http://localhost:11434/api/embed"
             /\ <<"Content-Type", "application/json">> \in r.headers
             /\ r.data.tag = "obj"
             /\ Len(r.data.items) = 2
             /\ RequestMembers(r.data) =
                    {<<<<"model">>, N("string", <<"mxbai-embed-large">>, <<>>)>>,
                     <<<<"input">>, N("string", argv[2], <<>>)>>}
    /\ (Exited /\ Len(argv) >= 2) => Len(requests) >= 1

C4_Witness ==
    /\ Len(requests) = 1
    /\ Len(argv[2]) = 2
    /\ argv[2][1] = "\""
    /\ argv[2][2] = "U+DC80"

MalformedShape ==
    /\ IsJson(content)
    /\ \/ content.tag # "obj"
       \/ /\ HasMember(content, "embeddings")
          /\ \/ MemberValue(content, "embeddings").tag # "arr"
             \/ \E i \in 1..Len(Embeddings) : ~IsVector(Embeddings[i])

C6_MalformedShapeReported == (Exited /\ MalformedShape) => ReportedAsError

\* C7: once the call has ended, the connection it opened is not open.
CallEnded == pc \in {"print", "except", "exited"} /\ requests # <<>>

C7_ClosedOnEveryPath == CallEnded => conn # "open"

\* C7 as amended: the response is closed on every path that leaves the with
\* block (return, read failure, decode failure, key, index or type error);
\* a failure of urlopen other than an error status leaves nothing open.
C7_ClosedAfterWithBlock ==
    /\ (CallEnded /\ response # NoBody) => conn = "closed"
    /\ (CallEnded /\ exc.cls # "HTTPError") => conn # "open"

C7_Witness == pc = "except" /\ exc.cls = "KeyError" /\ response # NoBody /\ conn = "closed"

\* C8: with an empty "embeddings" array the index error is not turned into
\* "Error: ..." and exit status 1.
EmptyEmbeddings == HasEmbeddingsArray /\ Len(Embeddings) = 0

C8_IndexErrorNotReported == (Exited /\ EmptyEmbeddings) => ~ReportedAsError

\* C8 as amended: with an empty "embeddings" array the IndexError leaves
\* embed unhandled and the top level catches it like the other failures:
\* "Error: list index out of range" on standard error, exit status 1.
C8_IndexErrorReported ==
    /\ (EmptyEmbeddings /\ pc \in {"except", "exited"}) => exc.cls = "IndexError"
    /\ (EmptyEmbeddings /\ Exited)
           => /\ stderr = <<<<"Error: ", "list index out of range">>>>
              /\ exitcode = 1
              /\ stdout = <<>>

C8_Witness == Exited /\ EmptyEmbeddings /\ exitcode = 1 /\ Len(content.items) = 2

\* C9: a run without arguments sends no request and opens no connection;
\* a request is sent only with an argument, and its input is the first
\* argument whatever follows it.
C9_ArgumentCheckFirst ==
    /\ Len(argv) < 2 => (requests = <<>> /\ conn = "none" /\ req = NoRequest)
    /\ \A i \in 1..Len(requests) :
         /\ Len(argv) >= 2
         /\ \E m \in 1..Len(requests[i].request.data.items) :
              /\ JsonValue(requests[i].request.data.items[m]).lit = <<"input">>
              /\ JsonValue(requests[i].request.data.items[m]).items[1].lit = argv[2]

C9_Witness == Len(argv) = 3 /\ argv[3] # argv[2] /\ Len(requests) = 1

\* C10: every run ends, with exit status 0 and output on standard output
\* only, or with exit status 1 and output on standard error only; standard
\* output is written only in a run that exits 0, and exit status 0 needs a
\* request sent and a response parsed.
C10_Outcome ==
    /\ exitcode \in {Running, 0, 1}
    /\ Exited <=> exitcode # Running
    /\ exitcode = 0 => (stdout # <<>> /\ stderr = <<>> /\ requests # <<>> /\ result # Unset)
    /\ exitcode = 1 => (stderr # <<>> /\ stdout = <<>>)
    /\ exitcode = Running => (stdout = <<>> /\ stderr = <<>>)

C10_TwoOutcomes == []C10_Outcome /\ <>Exited

C10_Witness == Exited /\ exitcode = 0 /\ stdout # <<>>
====
